---- MODULE Spec2Model ----
(***************************************************************************)
(* Model of the command / authentication / counter engine of KitaKits.py   *)
(* (class FacebookMessengerBot).                                           *)
(*                                                                         *)
(* Time is counted in ticks of 8 hours.  clock is the UTC time, which is   *)
(* what SQLite's CURRENT_TIMESTAMP yields; Python's datetime.now() is the  *)
(* naive local time, clock + tz.  Timestamps are compared at tick          *)
(* resolution.  The columns that no operation of the bot reads back        *)
(* (items.created_at, items.updated_at, command_logs.timestamp) are left   *)
(* out of the rows.                                                        *)
(*                                                                         *)
(* A message text is a sequence of tokens: "[", "]", " " (white space) and *)
(* words (maximal runs of other characters).                               *)
(***************************************************************************)
EXTENDS Integers, Sequences, FiniteSets, TLC

VARIABLES
    users,          \* table users: username -> row
    user_sessions,  \* table user_sessions, in insertion order
    items,          \* table items: item_id -> row
    command_logs,   \* table command_logs, in insertion order
    clock,          \* UTC time
    tz,             \* offset of the server's local time from UTC
    reply,          \* the last call: which operation, for whom, what it returned
    calls,          \* the calls of modify_item_count under way, one per thread
    response        \* the answer to the last POST /webhook, and the message sent

vars == <<users, user_sessions, items, command_logs, clock, tz, reply, calls,
          response>>

(***************************************************************************)
(* Bounds of the model                                                     *)
(***************************************************************************)
MaxClock == 4
MaxLogs == 2
MaxCount == 2
MaxAmount == 2
MaxThreads == 2
MaxItemLogs == 3

(***************************************************************************)
(* Program constants                                                       *)
(***************************************************************************)
\* timedelta(hours=24), in ticks of 8 hours
SessionTicks == 3
\* the default of the amount parameter of modify_item_count
DefaultAmount == 1
\* SQL NULL / a column never written
NULL == -1

\* offsets of the local time zone from UTC, in ticks
TzOffsets == {-1, 0, 1}

Senders == {"fb1", "fb2"}

ItemIds == {"default_item", "widget"}

Operations == {"add", "subtract", "remove"}

\* what the environment does to a [statistics] command: does writing the
\* report succeed (gen), and how does the platform answer the upload (post)
Environments ==
    { [gen |-> "raise", post |-> "none"], [gen |-> "ok", post |-> "200"],
      [gen |-> "ok", post |-> "non200"], [gen |-> "ok", post |-> "raise"] }

\* the environment when all goes well
Calm == [gen |-> "ok", post |-> "200"]

(***************************************************************************)
(* Texts                                                                   *)
(***************************************************************************)
Messages ==
    { <<"[", "help", "]">>,
      <<" ", "[", "help", "]", " ">>,
      <<"[", "HELP", "]">>,
      <<"[", "add", "]">>,
      <<"[", "ADD", "]">>,
      <<"[", "subtract", "]">>,
      <<"[", "count", "]">>,
      <<"[", "statistics", "]">>,
      <<"[", "admin", "]">>,
      <<"[", "bob", "]">>,
      <<"[", "widget", "]">>,
      <<"[", "admin", "]", " ", "[", "admin123", "]">>,
      <<"[", "add">>,
      <<"add">> }

\* str.lower(), on one token
LowerToken(tok) ==
    CASE tok = "HELP" -> "help"
      [] tok = "ADD" -> "add"
      [] tok = "Add" -> "add"
      [] tok = "SUBTRACT" -> "subtract"
      [] tok = "COUNT" -> "count"
      [] tok = "STATISTICS" -> "statistics"
      [] tok = "Subtract" -> "subtract"
      [] tok = "Count" -> "count"
      [] tok = "Statistics" -> "statistics"
      [] tok = "Widget" -> "widget"
      [] OTHER -> tok

\* the text taken as it came, without lower()
lower_none(s) == s

lower(s) == [i \in 1..Len(s) |-> LowerToken(s[i])]

RECURSIVE lstrip(_)
lstrip(s) == IF s # <<>> /\ Head(s) = " " THEN lstrip(Tail(s)) ELSE s

RECURSIVE rstrip(_)
rstrip(s) ==
    IF s # <<>> /\ s[Len(s)] = " " THEN rstrip(SubSeq(s, 1, Len(s) - 1)) ELSE s

\* the text taken as it came, without strip()
strip_none(s) == s

strip(s) == rstrip(lstrip(s))

\* a test of the opening bracket alone
is_bracketed_start_only(s) == s # <<>> /\ Head(s) = "["

\* message_text.startswith('[') and message_text.endswith(']')
is_bracketed(s) == s # <<>> /\ Head(s) = "[" /\ s[Len(s)] = "]"

\* message_text[1:-1]
content_of(s) == SubSeq(s, 2, Len(s) - 1)

(***************************************************************************)
(* Replies                                                                 *)
(***************************************************************************)
HelpReply == <<"Available commands: ...">>
AuthSuccessReply == <<"Authentication successful">>
InvalidCredentials == <<"Invalid credentials">>
AuthFirstReply == <<"Please authenticate first. Use [username] followed by [password] or use [help] for instructions.">>
MustAuthReply == <<"You must be authenticated to use this command. Please login first.">>
StatsSentReply == <<"Statistics report generated and sent!">>
UnknownReply == <<"Unknown command. Use [help] to see available commands.">>
ErrorReply(e) == <<"Error generating report: ", e>>
ModifyMessage(item_id, operation) == <<"Item ", item_id, " ", operation, "ed successfully">>
ModifyReply(message, new_count) == message \o <<". New count: ", new_count>>
CountReply(count) == <<"Current count for default_item: ", count>>
SetItemReply(command) == <<"Item '", command, "' selected. Use [add], [subtract], or [count] to interact with it.">>
\* an exception that leaves process_command
Raised(e) == <<"RAISED", e>>

(***************************************************************************)
(* Credential store                                                        *)
(***************************************************************************)
\* werkzeug's salted one-way hash; the salt is left out
generate_password_hash(password) == <<"hash", password>>

\* a check that accepts every password
check_password_hash_any(pwhash, password) == TRUE

check_password_hash(pwhash, password) == pwhash = generate_password_hash(password)

UserRow(fb, password) ==
    [facebook_id |-> fb, password_hash |-> generate_password_hash(password),
     is_authenticated |-> 0, last_login |-> NULL]

\* the users table as init_database leaves it on a new database file
SeededUsers == (<<"admin">> :> UserRow("admin_fb_id", <<"admin123">>))

\* a database file that holds accounts whose password is their username
OpenUsers ==
    (<<"admin">> :> UserRow("admin_fb_id", <<"admin">>)) @@
    (<<"bob">> :> UserRow("bob_fb_id", <<"bob">>))

CredentialStores == {SeededUsers, OpenUsers}

\* datetime.now()
LocalNow == clock + tz


(***************************************************************************)
(* Audit log                                                               *)
(***************************************************************************)
\* a log that puts the newest record first
log_command_prepending(logs, facebook_id, command, parameters, success, error_message) ==
    <<[facebook_id |-> facebook_id, command |-> command,
       parameters |-> parameters,
       success |-> IF success THEN 1 ELSE 0,
       error_message |-> error_message]>> \o logs

\* log_command: one INSERT INTO command_logs
log_command(logs, facebook_id, command, parameters, success, error_message) ==
    Append(logs, [facebook_id |-> facebook_id, command |-> command,
                  parameters |-> parameters,
                  success |-> IF success THEN 1 ELSE 0,
                  error_message |-> error_message])

\* the value of a parameter that is left at its default, None
None == <<"None">>

(***************************************************************************)
(* Session ledger                                                          *)
(***************************************************************************)
\* SELECT us.expires_at FROM user_sessions us JOIN users u
\*   ON us.facebook_id = u.facebook_id
\* WHERE us.facebook_id = ? AND us.expires_at > CURRENT_TIMESTAMP
MatchingSessions(facebook_id) ==
    { i \in 1..Len(user_sessions) :
        /\ user_sessions[i].facebook_id = facebook_id
        /\ \E u \in DOMAIN users : users[u].facebook_id = user_sessions[i].facebook_id
        /\ user_sessions[i].expires_at > clock }

is_user_authenticated(facebook_id) == MatchingSessions(facebook_id) # {}

\* hashlib.sha256(f"{facebook_id}{datetime.now()}"): a function of its input
session_token(facebook_id) == <<"sha256", facebook_id, LocalNow>>

\* authenticate_user that looks the username up and never checks the password
authenticate_user_any_password(facebook_id, username, password) ==
    IF username \notin DOMAIN users
    THEN [raised |-> FALSE, ok |-> FALSE, message |-> InvalidCredentials,
          users |-> users, user_sessions |-> user_sessions]
    ELSE IF \E other \in DOMAIN users \ {username} :
                users[other].facebook_id = facebook_id
    THEN [raised |-> TRUE, ok |-> FALSE, message |-> <<"IntegrityError">>,
          users |-> users, user_sessions |-> user_sessions]
    ELSE [raised |-> FALSE, ok |-> TRUE, message |-> AuthSuccessReply,
          users |-> [users EXCEPT ![username].facebook_id = facebook_id,
                                  ![username].last_login = clock],
          user_sessions |->
              Append(user_sessions,
                     [facebook_id |-> facebook_id,
                      session_token |-> session_token(facebook_id),
                      expires_at |-> LocalNow + SessionTicks,
                      created_at |-> clock])]

\* authenticate_user on a users table without UNIQUE(facebook_id)
authenticate_user_unconstrained(facebook_id, username, password) ==
    IF \/ username \notin DOMAIN users
       \/ ~check_password_hash(users[username].password_hash, password)
    THEN [raised |-> FALSE, ok |-> FALSE, message |-> InvalidCredentials,
          users |-> users, user_sessions |-> user_sessions]
    ELSE [raised |-> FALSE, ok |-> TRUE, message |-> AuthSuccessReply,
          users |-> [users EXCEPT ![username].facebook_id = facebook_id,
                                  ![username].last_login = clock],
          user_sessions |->
              Append(user_sessions,
                     [facebook_id |-> facebook_id,
                      session_token |-> session_token(facebook_id),
                      expires_at |-> LocalNow + SessionTicks,
                      created_at |-> clock])]

\* authenticate_user.  raised: the UPDATE broke UNIQUE(facebook_id) and
\* sqlite3.IntegrityError left the function before the commit.
authenticate_user(facebook_id, username, password) ==
    IF \/ username \notin DOMAIN users
       \/ ~check_password_hash(users[username].password_hash, password)
    THEN [raised |-> FALSE, ok |-> FALSE, message |-> InvalidCredentials,
          users |-> users, user_sessions |-> user_sessions]
    ELSE IF \E other \in DOMAIN users \ {username} :
                users[other].facebook_id = facebook_id
    THEN [raised |-> TRUE, ok |-> FALSE, message |-> <<"IntegrityError">>,
          users |-> users, user_sessions |-> user_sessions]
    ELSE [raised |-> FALSE, ok |-> TRUE, message |-> AuthSuccessReply,
          users |-> [users EXCEPT ![username].facebook_id = facebook_id,
                                  ![username].last_login = clock],
          user_sessions |->
              Append(user_sessions,
                     [facebook_id |-> facebook_id,
                      session_token |-> session_token(facebook_id),
                      expires_at |-> LocalNow + SessionTicks,
                      created_at |-> clock])]

(***************************************************************************)
(* Counter store                                                           *)
(***************************************************************************)
\* get_item_count: <<count>>, or <<>> (None) when there is no such item
get_item_count(item_id) ==
    IF item_id \in DOMAIN items THEN <<items[item_id].count>> ELSE <<>>

\* max() that returns its second argument
max_second(a, b) == b

max(a, b) == IF a >= b THEN a ELSE b

\* modify_item_count without the floor at zero
modify_item_count_unfloored(item_id, operation, amount) ==
    IF item_id \notin DOMAIN items
    THEN LET new_count == IF operation = "add" THEN 1 ELSE 0
         IN [items |-> (item_id :> [name |-> item_id, count |-> new_count])
                       @@ items,
             success |-> TRUE,
             message |-> ModifyMessage(item_id, operation),
             new_count |-> new_count]
    ELSE LET current_count == items[item_id].count
             new_count == IF operation = "add"
                          THEN current_count + amount
                          ELSE current_count - amount
         IN [items |-> [items EXCEPT ![item_id].count = new_count],
             success |-> TRUE,
             message |-> ModifyMessage(item_id, operation),
             new_count |-> new_count]

\* modify_item_count that creates an item with the amount added to it
modify_item_count_created_with_amount(item_id, operation, amount) ==
    IF item_id \notin DOMAIN items
    THEN LET new_count == IF operation = "add" THEN amount ELSE 0
         IN [items |-> (item_id :> [name |-> item_id, count |-> new_count])
                       @@ items,
             success |-> TRUE,
             message |-> ModifyMessage(item_id, operation),
             new_count |-> new_count]
    ELSE LET current_count == items[item_id].count
             new_count == IF operation = "add"
                          THEN current_count + amount
                          ELSE max(0, current_count - amount)
         IN [items |-> [items EXCEPT ![item_id].count = new_count],
             success |-> TRUE,
             message |-> ModifyMessage(item_id, operation),
             new_count |-> new_count]

\* modify_item_count: the new items table, and the returned triple
modify_item_count(item_id, operation, amount) ==
    IF item_id \notin DOMAIN items
    THEN LET new_count == IF operation = "add" THEN 1 ELSE 0
         IN [items |-> (item_id :> [name |-> item_id, count |-> new_count])
                       @@ items,
             success |-> TRUE,
             message |-> ModifyMessage(item_id, operation),
             new_count |-> new_count]
    ELSE LET current_count == items[item_id].count
             new_count == IF operation = "add"
                          THEN current_count + amount
                          ELSE max(0, current_count - amount)
         IN [items |-> [items EXCEPT ![item_id].count = new_count],
             success |-> TRUE,
             message |-> ModifyMessage(item_id, operation),
             new_count |-> new_count]

(***************************************************************************)
(* Report                                                                  *)
(***************************************************************************)
\* the path generate_statistics_report writes: reports/statistics_report_<now>
report_path == <<"reports/statistics_report_", LocalNow>>

\* the Summary sheet: Total Items, Total Commands Executed
report_summary == [total_items |-> Cardinality(DOMAIN items),
                   total_commands |-> Len(command_logs)]


(***************************************************************************)
(* Command interpreter                                                     *)
(***************************************************************************)
\* a call that returns without a write
NoEffect ==
    [raised |-> FALSE, reply |-> <<>>, users |-> users,
     user_sessions |-> user_sessions, items |-> items,
     command_logs |-> command_logs, report |-> <<>>, upload |-> <<>>]

\* if message_text == '[help]'
help_command(facebook_id) ==
    [NoEffect EXCEPT
        !.command_logs = log_command(command_logs, facebook_id, "help", None, TRUE, None),
        !.reply = HelpReply]

\* the branch taken for a bracketed text of a sender without a session
login_attempt(facebook_id, content) ==
    LET a == authenticate_user(facebook_id, content, content)
    IN IF a.raised
       THEN [NoEffect EXCEPT !.raised = TRUE, !.reply = Raised(a.message)]
       ELSE IF a.ok
       THEN [NoEffect EXCEPT
                !.users = a.users,
                !.user_sessions = a.user_sessions,
                !.command_logs = log_command(command_logs, facebook_id, "login",
                                             content, TRUE, None),
                !.reply = a.message]
       ELSE [NoEffect EXCEPT !.reply = AuthFirstReply]

\* the statistics command without its try / except: what the report or the
\* upload raises leaves the call
statistics_command_uncaught(facebook_id, gen, post) ==
    IF gen = "raise"
    THEN [NoEffect EXCEPT !.raised = TRUE, !.reply = Raised(<<"OSError">>)]
    ELSE LET written == <<report_path, report_summary>>
         IN IF post = "raise"
            THEN [NoEffect EXCEPT
                    !.report = written,
                    !.raised = TRUE,
                    !.reply = Raised(<<"ConnectionError">>)]
            ELSE [NoEffect EXCEPT
                    !.report = written,
                    !.upload = <<facebook_id, report_path, post>>,
                    !.command_logs = log_command(command_logs, facebook_id,
                                        "statistics", None, TRUE, None),
                    !.reply = StatsSentReply]

\* if command == 'statistics': gen and post are what the file system and the
\* platform do
statistics_command(facebook_id, gen, post) ==
    IF gen = "raise"
    THEN [NoEffect EXCEPT
            !.command_logs = log_command(command_logs, facebook_id, "statistics",
                                         None, FALSE, <<"OSError">>),
            !.reply = ErrorReply(<<"OSError">>)]
    ELSE LET written == <<report_path, report_summary>>
         IN IF post = "raise"
            THEN [NoEffect EXCEPT
                    !.report = written,
                    !.command_logs = log_command(command_logs, facebook_id,
                                        "statistics", None, FALSE, <<"ConnectionError">>),
                    !.reply = ErrorReply(<<"ConnectionError">>)]
            ELSE [NoEffect EXCEPT
                    !.report = written,
                    !.upload = <<facebook_id, report_path, post>>,
                    !.command_logs = log_command(command_logs, facebook_id,
                                        "statistics", None, TRUE, None),
                    !.reply = StatsSentReply]

\* elif command == 'add' / elif command == 'subtract'
modify_command(facebook_id, operation) ==
    LET m == modify_item_count("default_item", operation, DefaultAmount)
    IN [NoEffect EXCEPT
            !.items = m.items,
            !.command_logs = log_command(command_logs, facebook_id, operation,
                                         <<"default_item">>, m.success, None),
            !.reply = ModifyReply(m.message, m.new_count)]

\* the count command as a get-or-create: an absent default_item is inserted
count_command_creating(facebook_id) ==
    LET got == get_item_count("default_item")
        count == IF got # <<>> THEN got[1] ELSE 0
    IN [NoEffect EXCEPT
            !.items = IF got # <<>> THEN items
                      ELSE ("default_item" :> [name |-> "default_item", count |-> 0])
                           @@ items,
            !.command_logs = log_command(command_logs, facebook_id, "count",
                                         <<"default_item">>, TRUE, None),
            !.reply = CountReply(count)]

\* elif command == 'count'
count_command(facebook_id) ==
    LET got == get_item_count("default_item")
        count == IF got # <<>> THEN got[1] ELSE 0
    IN [NoEffect EXCEPT
            !.command_logs = log_command(command_logs, facebook_id, "count",
                                         <<"default_item">>, TRUE, None),
            !.reply = CountReply(count)]

\* the else branch as a selection that creates the item it names
set_item_command_creating(facebook_id, command) ==
    [NoEffect EXCEPT
        !.items = IF command[1] \in DOMAIN items THEN items
                  ELSE (command[1] :> [name |-> command[1], count |-> 0])
                       @@ items,
        !.command_logs = log_command(command_logs, facebook_id, "set_item",
                                     command, TRUE, None),
        !.reply = SetItemReply(command)]

\* else: treat as item ID
set_item_command(facebook_id, command) ==
    [NoEffect EXCEPT
        !.command_logs = log_command(command_logs, facebook_id, "set_item",
                                     command, TRUE, None),
        !.reply = SetItemReply(command)]

\* the dispatch on message_text[1:-1].lower()
dispatch(facebook_id, command, gen, post) ==
    IF command = <<"statistics">> THEN statistics_command(facebook_id, gen, post)
    ELSE IF command = <<"add">> THEN modify_command(facebook_id, "add")
    ELSE IF command = <<"subtract">> THEN modify_command(facebook_id, "subtract")
    ELSE IF command = <<"count">> THEN count_command(facebook_id)
    ELSE set_item_command(facebook_id, command)

\* # Unknown command
unknown_command(facebook_id, message_text) ==
    [NoEffect EXCEPT
        !.command_logs = log_command(command_logs, facebook_id, "unknown",
                                     message_text, FALSE, <<"Unknown command">>),
        !.reply = UnknownReply]

\* process_command without its gate: a login that fails falls through to the
\* dispatch, and the second authentication check is missing
process_command_ungated(facebook_id, raw_text, gen, post) ==
    LET message_text == strip(raw_text)
        try == login_attempt(facebook_id, content_of(message_text))
    IN IF message_text = <<"[", "help", "]">>
       THEN help_command(facebook_id)
       ELSE IF /\ is_bracketed(message_text)
               /\ ~is_user_authenticated(facebook_id)
               /\ try.reply = AuthSuccessReply
       THEN try
       ELSE IF is_bracketed(message_text)
       THEN dispatch(facebook_id, lower(content_of(message_text)), gen, post)
       ELSE unknown_command(facebook_id, message_text)

\* process_command that tries every bracketed text as a login first, with
\* or without a session
process_command_login_first(facebook_id, raw_text, gen, post) ==
    LET message_text == strip(raw_text)
        try == login_attempt(facebook_id, content_of(message_text))
    IN IF message_text = <<"[", "help", "]">>
       THEN help_command(facebook_id)
       ELSE IF is_bracketed(message_text) /\ ~is_user_authenticated(facebook_id)
       THEN try
       ELSE IF ~is_user_authenticated(facebook_id)
       THEN [NoEffect EXCEPT !.reply = MustAuthReply]
       ELSE IF is_bracketed(message_text) /\ try.reply = AuthSuccessReply
       THEN try
       ELSE IF is_bracketed(message_text)
       THEN dispatch(facebook_id, lower(content_of(message_text)), gen, post)
       ELSE unknown_command(facebook_id, message_text)

process_command(facebook_id, raw_text, gen, post) ==
    LET message_text == strip(raw_text)
    IN IF message_text = <<"[", "help", "]">>
       THEN help_command(facebook_id)
       ELSE IF is_bracketed(message_text) /\ ~is_user_authenticated(facebook_id)
       THEN login_attempt(facebook_id, content_of(message_text))
       ELSE IF ~is_user_authenticated(facebook_id)
       THEN [NoEffect EXCEPT !.reply = MustAuthReply]
       ELSE IF is_bracketed(message_text)
       THEN dispatch(facebook_id, lower(content_of(message_text)), gen, post)
       ELSE unknown_command(facebook_id, message_text)

(***************************************************************************)
(* The state machine                                                       *)
(***************************************************************************)
\* reply: the operation called last (call) with its arguments (to, args), the
\* row of the item it found when it started (prior: <<count>>, or <<>> for
\* none), and what came out of it: the returned value (text), the exception
\* that left it (raised), the report file written and the upload made
NoReply == [call |-> "none", to |-> "nobody", args |-> <<>>, prior |-> <<>>,
            raised |-> FALSE, text |-> <<>>, report |-> <<>>, upload |-> <<>>]

\* the threads of the server: app.run serves each request in a thread of its
\* own
Threads == 1..MaxThreads

\* a thread that is not inside modify_item_count
NoCall == [pc |-> "idle", item_id |-> "", operation |-> "", amount |-> 0,
           result |-> <<>>, new_count |-> NULL]

\* no POST answered yet
NoResponse == [status |-> 0, body |-> "", sent |-> <<>>]

Init ==
    /\ users \in CredentialStores
    /\ user_sessions = <<>>
    /\ items = <<>>
    /\ command_logs = <<>>
    /\ clock = 0
    /\ tz \in TzOffsets
    /\ reply = NoReply
    /\ calls = [t \in Threads |-> NoCall]
    /\ response = NoResponse

\* what one call of process_command does to the tables, while the audit log
\* holds no more than max_logs records
CallProcessCommand(max_logs, facebook_id, raw_text, gen, post) ==
    LET r == process_command(facebook_id, raw_text, gen, post)
    IN /\ Len(r.command_logs) <= max_logs
       /\ \A id \in DOMAIN r.items : r.items[id].count <= MaxCount
       /\ users' = r.users
       /\ user_sessions' = r.user_sessions
       /\ items' = r.items
       /\ command_logs' = r.command_logs
       /\ reply' = [call |-> "process_command", to |-> facebook_id,
                     args |-> raw_text,
                     prior |-> get_item_count("default_item"),
                     raised |-> r.raised, text |-> r.reply,
                     report |-> r.report, upload |-> r.upload]
       /\ UNCHANGED <<clock, tz, calls>>

\* one call of process_command, while the audit log holds no more than
\* max_logs records
ProcessCommandWithin(max_logs, facebook_id, raw_text, gen, post) ==
    /\ CallProcessCommand(max_logs, facebook_id, raw_text, gen, post)
    /\ UNCHANGED response

\* one call of process_command
ProcessCommand(facebook_id, raw_text, gen, post) ==
    ProcessCommandWithin(MaxLogs, facebook_id, raw_text, gen, post)

\* one direct call of modify_item_count; text is the returned message and
\* count
ModifyItemCount(item_id, operation, amount) ==
    LET m == modify_item_count(item_id, operation, amount)
    IN /\ m.new_count <= MaxCount
       /\ items' = m.items
       /\ reply' = [NoReply EXCEPT !.call = "modify_item_count",
                                   !.args = <<item_id, operation, amount>>,
                                   !.prior = get_item_count(item_id),
                                   !.text = ModifyReply(m.message, m.new_count)]
       /\ UNCHANGED <<users, user_sessions, command_logs, clock, tz, calls,
                       response>>

\* one direct call of get_item_count; text is the returned value
GetItemCount(item_id) ==
    /\ reply' = [NoReply EXCEPT !.call = "get_item_count",
                                !.args = <<item_id>>,
                                !.prior = get_item_count(item_id),
                                !.text = get_item_count(item_id)]
    /\ UNCHANGED <<users, user_sessions, items, command_logs, clock, tz, calls,
                   response>>

\* time passes
Tick ==
    /\ clock < MaxClock
    /\ clock' = clock + 1
    /\ UNCHANGED <<users, user_sessions, items, command_logs, tz, reply, calls,
                   response>>

\* the environments that make a difference to a text: only the statistics
\* command touches the file system and the platform
EnvironmentsOf(raw_text) ==
    IF lower(strip(raw_text)) = <<"[", "statistics", "]">>
    THEN Environments ELSE {Calm}

\* the texts of the specification of sessions and time
SessionMessages ==
    { <<"[", "help", "]">>, <<"[", "admin", "]">>, <<"[", "bob", "]">>,
      <<"[", "add", "]">>, <<"add">> }

\* the texts of the specification of the counter store
StoreMessages ==
    { <<"[", "admin", "]">>, <<"[", "add", "]">>, <<"[", "subtract", "]">>,
      <<"[", "count", "]">> }

\* Spec: the bot as deployed, over time.  Every call comes in through
\* process_command, two senders share the accounts, sessions expire.
Next ==
    \/ \E fb \in Senders, raw \in SessionMessages :
            ProcessCommand(fb, raw, Calm.gen, Calm.post)
    \/ Tick

Spec == Init /\ [][Next]_vars

\* SpecCommands: the bot as deployed, every text, within one tick.
InitCommands == Init /\ tz = 0

NextCommands ==
    \E fb \in Senders, raw \in Messages :
        \E env \in EnvironmentsOf(raw) : ProcessCommand(fb, raw, env.gen, env.post)

SpecCommands == InitCommands /\ [][NextCommands]_vars

\* SpecStore: the counter store, called directly and through the commands of
\* the senders, within one tick.
InitStore == Init /\ tz = 0 /\ users = OpenUsers

NextStore ==
    \/ \E fb \in Senders, raw \in StoreMessages :
            ProcessCommand(fb, raw, Calm.gen, Calm.post)
    \/ \E id \in ItemIds, op \in Operations, amount \in 0..MaxAmount :
            ModifyItemCount(id, op, amount)
    \/ \E id \in ItemIds : GetItemCount(id)

SpecStore == InitStore /\ [][NextStore]_vars

(***************************************************************************)
(* The webhook                                                             *)
(***************************************************************************)
\* FACEBOOK_APP_SECRET
APP_SECRET == "app_secret"

\* hmac.new(key, payload, hashlib.sha256).hexdigest()
hmac_sha256(key, payload) == <<"hmac", key, payload>>

\* verify_webhook_signature; a header that is missing is <<>>
verify_webhook_signature(payload, signature) ==
    IF signature = <<>> THEN FALSE
    ELSE <<"sha256=", hmac_sha256(APP_SECRET, payload)>> = signature

\* the texts that come in with the POSTs
WebhookMessages ==
    { <<"[", "help", "]">>, <<"[", "admin", "]">>, <<"[", "bob", "]">>,
      <<"[", "add", "]">> }

\* a messaging event that is no message
Delivery == [message |-> FALSE, sender |-> "", text |-> <<>>]

\* the bodies of the POSTs: one that is no JSON, one of another object, and
\* pages whose entry holds a delivery event, a message, or both.  A page
\* holds one message at most.
Bodies ==
    { [json |-> FALSE, object |-> "", messaging |-> <<>>],
      [json |-> TRUE, object |-> "user", messaging |-> <<>>],
      [json |-> TRUE, object |-> "page", messaging |-> <<Delivery>>] }
    \cup { [json |-> TRUE, object |-> "page",
            messaging |-> <<[message |-> TRUE, sender |-> fb, text |-> raw]>>] :
            fb \in Senders, raw \in WebhookMessages }
    \cup { [json |-> TRUE, object |-> "page",
            messaging |-> <<Delivery,
                            [message |-> TRUE, sender |-> fb,
                             text |-> <<"[", "help", "]">>]>>] :
            fb \in Senders }

\* the X-Hub-Signature-256 headers a body comes with: none, the signature of
\* the body, one made with another secret, one of another body, one with
\* another prefix
Signatures(body) ==
    { <<>>,
      <<"sha256=", hmac_sha256(APP_SECRET, body)>>,
      <<"sha256=", hmac_sha256("another_secret", body)>>,
      <<"sha256=", hmac_sha256(APP_SECRET, [body EXCEPT !.object = "forged"])>>,
      <<"sha1=", hmac_sha256(APP_SECRET, body)>> }

\* what requests.post does in send_message: the status of the answer, or an
\* exception
Sends == {"200", "non200", "raise"}

\* the messaging events of a body that are messages
MessageEvents(body) ==
    IF body.object = "page"
    THEN SelectSeq(body.messaging, LAMBDA e : e.message)
    ELSE <<>>

\* POST /webhook.  An exception that leaves the view (get_json on a body
\* that is no JSON, process_command, send_message) is answered by Flask with
\* its error status.
HandleWebhook(body, signature, send) ==
    IF ~verify_webhook_signature(body, signature)
    THEN /\ response' = [status |-> 403, body |-> "Invalid signature", sent |-> <<>>]
         /\ UNCHANGED <<users, user_sessions, items, command_logs, clock, tz,
                        reply, calls>>
    ELSE IF ~body.json
    THEN /\ response' = [status |-> 400, body |-> "Bad Request", sent |-> <<>>]
         /\ UNCHANGED <<users, user_sessions, items, command_logs, clock, tz,
                        reply, calls>>
    ELSE IF MessageEvents(body) = <<>>
    THEN /\ response' = [status |-> 200, body |-> "OK", sent |-> <<>>]
         /\ UNCHANGED <<users, user_sessions, items, command_logs, clock, tz,
                        reply, calls>>
    ELSE LET messaging_event == MessageEvents(body)[1]
             sender_id == messaging_event.sender
         IN /\ CallProcessCommand(MaxLogs, sender_id, messaging_event.text,
                                  Calm.gen, Calm.post)
            /\ response' =
                 IF reply'.raised \/ send = "raise"
                 THEN [status |-> 500, body |-> "Internal Server Error",
                       sent |-> <<>>]
                 ELSE [status |-> 200, body |-> "OK",
                       sent |-> <<sender_id, reply'.text, send>>]

\* SpecWebhook: the bot behind its webhook, over time.
NextWebhook ==
    \/ \E body \in Bodies, send \in Sends :
            \E signature \in Signatures(body) : HandleWebhook(body, signature, send)
    \/ Tick

SpecWebhook == InitStore /\ [][NextWebhook]_vars

\* the spellings of the keywords of the dispatch
CaseForms ==
    [ statistics |-> {"statistics", "STATISTICS", "Statistics"},
      add |-> {"add", "ADD", "Add"},
      subtract |-> {"subtract", "SUBTRACT", "Subtract"},
      count |-> {"count", "COUNT", "Count"} ]

\* the texts of the specification of letter case: a login, and every
\* spelling of every keyword
CaseMessages ==
    { <<"[", "admin", "]">> }
    \cup { <<"[", tok, "]">> : tok \in UNION { CaseForms[k] : k \in DOMAIN CaseForms } }

\* SpecCase: the keywords in every spelling, in every environment, within
\* one tick, long enough for a login and two commands.
NextCase ==
    \E fb \in Senders, raw \in CaseMessages :
        \E env \in EnvironmentsOf(raw) :
            ProcessCommandWithin(MaxItemLogs, fb, raw, env.gen, env.post)

SpecCase == InitStore /\ [][NextCase]_vars

\* SpecSeeded: the bot on a new database file, which holds the seeded user
\* and no other, over time.  The identity the seeded row carries is among
\* the senders.
InitSeeded == Init /\ users = SeededUsers

SeededSenders == Senders \cup {"admin_fb_id"}

NextSeeded ==
    \/ \E fb \in SeededSenders, raw \in Messages :
            ProcessCommand(fb, raw, Calm.gen, Calm.post)
    \/ Tick

SpecSeeded == InitSeeded /\ [][NextSeeded]_vars

\* the texts of the specification of item selection
ItemMessages ==
    { <<"[", "admin", "]">>, <<"[", "widget", "]">>, <<"[", "HELP", "]">>,
      <<"[", "add", "]">>, <<"[", "subtract", "]">>, <<"[", "count", "]">> }

\* SpecItems: the commands that name and count items, long enough for a
\* login, a selection and a command after it; items are also created by
\* direct calls of modify_item_count.
NextItems ==
    \/ \E fb \in Senders, raw \in ItemMessages :
            ProcessCommandWithin(MaxItemLogs, fb, raw, Calm.gen, Calm.post)
    \/ \E id \in ItemIds : ModifyItemCount(id, "add", DefaultAmount)

SpecItems == InitStore /\ [][NextItems]_vars

(***************************************************************************)
(* modify_item_count, statement by statement.  Every call opens a          *)
(* connection of its own; the SELECT runs outside a transaction (sqlite3   *)
(* begins one only before the INSERT or UPDATE), so calls of other threads *)
(* can run between the SELECT and the write.                               *)
(***************************************************************************)
\* cursor.execute('SELECT count FROM items WHERE item_id = ?'); fetchone()
ModifySelect(t, item_id, operation, amount) ==
    /\ calls[t].pc = "idle"
    /\ calls' = [calls EXCEPT ![t] =
                    [pc |-> "selected", item_id |-> item_id,
                     operation |-> operation, amount |-> amount,
                     result |-> get_item_count(item_id), new_count |-> NULL]]
    /\ UNCHANGED <<users, user_sessions, items, command_logs, clock, tz, reply,
                   response>>

\* the INSERT or the UPDATE, with the count computed from the row fetched,
\* and the commit.  The INSERT of an item_id that another call has inserted
\* since breaks UNIQUE(item_id): sqlite3.IntegrityError leaves the call.
ModifyWrite(t) ==
    LET c == calls[t]
        new_count ==
            IF c.result = <<>>
            THEN (IF c.operation = "add" THEN 1 ELSE 0)
            ELSE IF c.operation = "add"
            THEN c.result[1] + c.amount
            ELSE max(0, c.result[1] - c.amount)
    IN /\ c.pc = "selected"
       /\ new_count <= MaxCount
       /\ IF c.result = <<>> /\ c.item_id \in DOMAIN items
          THEN /\ calls' = [calls EXCEPT ![t].pc = "raised"]
               /\ items' = items
          ELSE /\ calls' = [calls EXCEPT ![t].pc = "returned",
                                         ![t].new_count = new_count]
               /\ items' =
                    IF c.result = <<>>
                    THEN (c.item_id :> [name |-> c.item_id, count |-> new_count])
                         @@ items
                    ELSE [items EXCEPT ![c.item_id].count = new_count]
       /\ UNCHANGED <<users, user_sessions, command_logs, clock, tz, reply,
                      response>>

\* SpecConcurrent: calls of modify_item_count made one after the other, and
\* then one call in each thread of the server, all under way at once.
NextConcurrent ==
    \/ \E id \in ItemIds, op \in Operations :
            /\ \A t \in Threads : calls[t].pc = "idle"
            /\ ModifyItemCount(id, op, DefaultAmount)
    \/ \E t \in Threads, id \in ItemIds, op \in Operations :
            ModifySelect(t, id, op, DefaultAmount)
    \/ \E t \in Threads : ModifyWrite(t)

SpecConcurrent == InitStore /\ [][NextConcurrent]_vars

TypeOK ==
    /\ clock \in 0..MaxClock
    /\ tz \in TzOffsets
    /\ Len(command_logs) <= MaxLogs


(***************************************************************************)
(* Properties                                                              *)
(***************************************************************************)
Help == <<"[", "help", "]">>
AddText == <<"[", "add", "]">>
SubtractText == <<"[", "subtract", "]">>
CountText == <<"[", "count", "]">>

\* this step is a call of process_command with this sender and text, in some
\* environment
Calls(fb, raw) ==
    /\ reply'.call = "process_command"
    /\ reply'.to = fb
    /\ reply'.args = raw
    /\ \E env \in Environments : ProcessCommand(fb, raw, env.gen, env.post)

Floor0(n) == IF n < 0 THEN 0 ELSE n

\* the reply of an add or subtract: "<message>. New count: <n>"
SaysNewCount(text, n) == Len(text) = 7 /\ text[6] = ". New count: " /\ text[7] = n

\* C1: in every reachable state, whatever process_command and
\* modify_item_count calls (any operation, any amount >= 0) came before, the
\* stored count of every item is >= 0.
C1_CountsNonNegative == \A id \in DOMAIN items : items[id].count >= 0

\* a subtract of more than the item held has just left it at 0
C1_Witness ==
    /\ reply.call = "modify_item_count"
    /\ reply.args[2] = "subtract"
    /\ reply.prior # <<>>
    /\ reply.prior[1] < reply.args[3]
    /\ items[reply.args[1]].count = 0

\* C8: modify_item_count(id, 'subtract', a) on an existing item of count c
\* stores and returns max(0, c - a); an authenticated [subtract] on a
\* default_item of count 0 leaves it at 0 and replies "New count: 0".
C8_SubtractFloorsAtZero ==
    [][ /\ \A id \in ItemIds, a \in 0..MaxAmount :
            (id \in DOMAIN items /\ ModifyItemCount(id, "subtract", a))
            => /\ items'[id].count = Floor0(items[id].count - a)
               /\ SaysNewCount(reply'.text, Floor0(items[id].count - a))
               /\ \A other \in DOMAIN items \ {id} : items'[other] = items[other]
        /\ \A fb \in Senders :
            ( /\ is_user_authenticated(fb)
              /\ "default_item" \in DOMAIN items
              /\ items["default_item"].count = 0
              /\ Calls(fb, SubtractText) )
            => /\ items'["default_item"].count = 0
               /\ SaysNewCount(reply'.text, 0) ]_vars

\* an authenticated [subtract] found default_item at 0 and left it there
C8_Witness ==
    /\ reply.call = "process_command"
    /\ reply.args = SubtractText
    /\ reply.prior = <<0>>
    /\ SaysNewCount(reply.text, 0)
    /\ items["default_item"].count = 0

\* C9: the first modify_item_count on an unseen item creates it with count 1
\* when the operation is add and 0 otherwise, whatever the amount; an
\* authenticated [add] with default_item absent creates it with count 1 and
\* replies "New count: 1".
C9_FirstTouch ==
    [][ /\ \A id \in ItemIds, op \in Operations, a \in 0..MaxAmount :
            (id \notin DOMAIN items /\ ModifyItemCount(id, op, a))
            => /\ DOMAIN items' = DOMAIN items \cup {id}
               /\ items'[id].count = (IF op = "add" THEN 1 ELSE 0)
               /\ SaysNewCount(reply'.text, IF op = "add" THEN 1 ELSE 0)
        /\ \A fb \in Senders :
            ( /\ is_user_authenticated(fb)
              /\ "default_item" \notin DOMAIN items
              /\ Calls(fb, AddText) )
            => /\ "default_item" \in DOMAIN items'
               /\ items'["default_item"].count = 1
               /\ SaysNewCount(reply'.text, 1) ]_vars

\* an add of 2 has just created an item, with count 1
C9_Witness ==
    /\ reply.call = "modify_item_count"
    /\ reply.prior = <<>>
    /\ reply.args[2] = "add"
    /\ reply.args[3] = 2
    /\ items[reply.args[1]].count = 1

\* C10: get_item_count and the authenticated [count] command leave the items
\* table as it is (an absent default_item is reported as 0 and not created),
\* and a read that follows a read of the same item returns the same value.
C10_ReadsLeaveStore ==
    [][ /\ \A id \in ItemIds :
            GetItemCount(id)
            => /\ items' = items
               /\ reply'.text = (IF id \in DOMAIN items
                                 THEN <<items[id].count>> ELSE <<>>)
               /\ (reply.call = "get_item_count" /\ reply.args = <<id>>)
                    => reply'.text = reply.text
        /\ \A fb \in Senders :
            (is_user_authenticated(fb) /\ Calls(fb, CountText))
            => /\ items' = items
               /\ reply'.text = CountReply(IF "default_item" \in DOMAIN items
                                           THEN items["default_item"].count
                                           ELSE 0) ]_vars

\* an authenticated [count] has just reported an absent default_item as 0
C10_Witness ==
    /\ reply.call = "process_command"
    /\ reply.args = CountText
    /\ reply.text = CountReply(0)
    /\ "default_item" \notin DOMAIN items


\* the texts that strip() turns into [help]
HelpTexts == { Help, <<" ", "[", "help", "]", " ">> }

\* the replies that read a count out of the items table
ReadsOut(text) == text[1] \in {"Current count for default_item: ", "Item "}

LastLog == command_logs[Len(command_logs)]

\* C2: a call of process_command for a sender who is not authenticated when
\* it starts leaves the items table as it is, replies with no count, writes
\* and uploads no report, and logs nothing but a help or a login, whatever the
\* text.
C2_GateBeforeCommands ==
    [][ \A fb \in Senders, raw \in Messages :
            (~is_user_authenticated(fb) /\ Calls(fb, raw))
            => /\ items' = items
               /\ ~ReadsOut(reply'.text)
               /\ reply'.report = <<>>
               /\ reply'.upload = <<>>
               /\ \/ command_logs' = command_logs
                  \/ /\ Len(command_logs') = Len(command_logs) + 1
                     /\ command_logs'[Len(command_logs')].command \in {"help", "login"} ]_vars

\* a sender without a session has sent [statistics], while there are items to
\* report, and was told to authenticate
C2_Witness ==
    /\ reply.call = "process_command"
    /\ reply.args = <<"[", "statistics", "]">>
    /\ ~is_user_authenticated(reply.to)
    /\ reply.text = AuthFirstReply
    /\ "default_item" \in DOMAIN items

\* C3: every call of process_command appends exactly one record to
\* command_logs.
C3_ExactlyOneRecord ==
    [][ \A fb \in Senders, raw \in Messages :
            Calls(fb, raw) => Len(command_logs') = Len(command_logs) + 1 ]_vars

\* C4: a sender is authenticated exactly while the clock is inside the window
\* [T, T + D) of a session issued to it at T, whatever else was sent.
C4_ValidExactlyInWindow ==
    \A fb \in Senders :
        is_user_authenticated(fb)
        <=> \E i \in DOMAIN user_sessions :
                /\ user_sessions[i].facebook_id = fb
                /\ user_sessions[i].created_at <= clock
                /\ clock < user_sessions[i].created_at + SessionTicks

\* C5: a sender who is not authenticated and sends [token], where the users
\* table holds token with the password token, gets the success reply and a
\* session, and is authenticated right after.
C5_LoginSucceeds ==
    [][ \A fb \in Senders, raw \in Messages :
            LET token == content_of(strip(raw))
            IN ( /\ ~is_user_authenticated(fb)
                 /\ is_bracketed(strip(raw))
                 /\ strip(raw) # Help
                 /\ token \in DOMAIN users
                 /\ users[token].password_hash = generate_password_hash(token)
                 /\ Calls(fb, raw) )
               => /\ reply'.text = AuthSuccessReply
                  /\ Len(user_sessions') = Len(user_sessions) + 1
                  /\ user_sessions'[Len(user_sessions')].facebook_id = fb
                  /\ is_user_authenticated(fb)' ]_vars

\* C6: a login attempt that fails (a bracketed text of a sender without a
\* session whose token is no username, or a username with another password)
\* leaves users, user_sessions and items as they are and returns the
\* authenticate-first reply, the same for an unknown name, a wrong password
\* and a command keyword.
C6_FailedLoginChangesNothing ==
    [][ \A fb \in Senders, raw \in Messages :
            LET token == content_of(strip(raw))
            IN ( /\ ~is_user_authenticated(fb)
                 /\ is_bracketed(strip(raw))
                 /\ strip(raw) # Help
                 /\ \/ token \notin DOMAIN users
                    \/ users[token].password_hash # generate_password_hash(token)
                 /\ Calls(fb, raw) )
               => /\ reply'.text = AuthFirstReply
                  /\ ~reply'.raised
                  /\ users' = users
                  /\ user_sessions' = user_sessions
                  /\ items' = items ]_vars

\* [admin] has just been refused for its password: the account exists, with
\* another password
C6_Witness ==
    /\ reply.call = "process_command"
    /\ reply.args = <<"[", "admin", "]">>
    /\ reply.text = AuthFirstReply
    /\ <<"admin">> \in DOMAIN users
    /\ users[<<"admin">>].password_hash # generate_password_hash(<<"admin">>)
    /\ user_sessions = <<>>

\* C7: a text that is [help] once trimmed is answered with the help text,
\* whether the sender is authenticated or not, is logged as a help with
\* success = 1, and leaves users, user_sessions and items as they are.
C7_HelpAlwaysAnswered ==
    [][ \A fb \in Senders, raw \in HelpTexts :
            Calls(fb, raw)
            => /\ reply'.text = HelpReply
               /\ command_logs' =
                    Append(command_logs,
                           [facebook_id |-> fb, command |-> "help",
                            parameters |-> None, success |-> 1,
                            error_message |-> None])
               /\ users' = users
               /\ user_sessions' = user_sessions
               /\ items' = items ]_vars

\* an authenticated sender has sent " [help] " and got the help text
C7_Witness ==
    /\ reply.call = "process_command"
    /\ reply.args = <<" ", "[", "help", "]", " ">>
    /\ is_user_authenticated(reply.to)
    /\ reply.text = HelpReply
    /\ LastLog.command = "help"


\* the least of a non-empty set of numbers
Min(S) == CHOOSE x \in S : \A y \in S : x <= y

\* C11: when every thread has run one modify_item_count(id, 'add', 1) on an
\* item that existed with count c, in any interleaving of their SELECT and
\* write steps, and all have returned, the stored count is c + n, n the number
\* of threads (c is the least count a call fetched: counts only grew).
C11_NoLostUpdate ==
    \A id \in ItemIds :
        ( \A t \in Threads :
            /\ calls[t].pc = "returned"
            /\ calls[t].item_id = id
            /\ calls[t].operation = "add"
            /\ calls[t].amount = 1
            /\ calls[t].result # <<>> )
        => items[id].count
             = Min({ calls[t].result[1] : t \in Threads }) + Cardinality(Threads)


StatisticsText == <<"[", "statistics", "]">>

\* C12: [statistics] from an authenticated sender returns a reply, raises
\* nothing and appends one statistics record: with success = 1 and the
\* report-sent reply when the report was written and the upload got an answer
\* (200 or not), with success = 0, the error message and the error reply when
\* writing the report raised (and a failure record and an error reply as well
\* when the upload raised).
C12_StatisticsAudited ==
    [][ \A fb \in Senders, env \in Environments :
            ( /\ reply'.call = "process_command"
              /\ reply'.to = fb
              /\ reply'.args = StatisticsText
              /\ is_user_authenticated(fb)
              /\ ProcessCommand(fb, StatisticsText, env.gen, env.post) )
            => /\ ~reply'.raised
               /\ Len(command_logs') = Len(command_logs) + 1
               /\ SubSeq(command_logs', 1, Len(command_logs)) = command_logs
               /\ LET rec == command_logs'[Len(command_logs')]
                  IN /\ rec.facebook_id = fb
                     /\ rec.command = "statistics"
                     /\ (env.gen = "ok" /\ env.post \in {"200", "non200"})
                          => /\ rec.success = 1
                             /\ rec.error_message = None
                             /\ reply'.text = StatsSentReply
                             /\ reply'.report # <<>>
                             /\ reply'.upload = <<fb, reply'.report[1], env.post>>
                     /\ (env.gen = "raise" \/ env.post = "raise")
                          => /\ rec.success = 0
                             /\ rec.error_message # None
                             /\ reply'.text = ErrorReply(rec.error_message)
                             /\ reply'.upload = <<>>
                     /\ env.gen = "raise" => reply'.report = <<>> ]_vars

\* the platform has answered the upload of a report with a status other than
\* 200, and the command was logged as a success
C12_Witness ==
    /\ reply.call = "process_command"
    /\ reply.args = StatisticsText
    /\ reply.upload # <<>>
    /\ reply.upload[3] = "non200"
    /\ reply.text = StatsSentReply
    /\ LastLog.command = "statistics"
    /\ LastLog.success = 1


\* C13: no call of process_command raises: whatever the sender, the text and
\* the state of the tables (a login that rebinds a user to an identity that
\* another user holds included), the call returns a reply.
C13_NeverRaises ==
    reply.call = "process_command" => (~reply.raised /\ reply.text # <<>>)


Keywords == { <<"statistics">>, <<"add">>, <<"subtract">>, <<"count">> }

C15_UnknownCommand ==
    [][ \A fb \in Senders, raw \in Messages :
            LET text == strip(raw)
            IN ( /\ is_user_authenticated(fb)
                 /\ (text = <<>> \/ text[1] # "[" \/ text[Len(text)] # "]")
                 /\ Calls(fb, raw) )
               => /\ reply'.text = UnknownReply
                  /\ ~reply'.raised
                  /\ command_logs' =
                        Append(command_logs,
                               [facebook_id |-> fb, command |-> "unknown",
                                parameters |-> text, success |-> 0,
                                error_message |-> <<"Unknown command">>])
                  /\ items' = items
                  /\ user_sessions' = user_sessions
                  /\ users' = users ]_vars

\* an authenticated sender has sent "[add", with no closing bracket, and was
\* told the command is unknown
C15_Witness ==
    /\ reply.call = "process_command"
    /\ reply.args = <<"[", "add">>
    /\ is_user_authenticated(reply.to)
    /\ reply.text = UnknownReply
    /\ LastLog.command = "unknown"
    /\ LastLog.success = 0


C17_SignatureGate ==
    [][ \A body \in Bodies, send \in Sends :
          \A signature \in Signatures(body) :
            LET valid == /\ signature # <<>>
                         /\ signature = <<"sha256=", hmac_sha256(APP_SECRET, body)>>
            IN HandleWebhook(body, signature, send)
               => /\ ~valid
                      => /\ response'.status = 403
                         /\ response'.sent = <<>>
                         /\ reply' = reply
                         /\ UNCHANGED <<users, user_sessions, items, command_logs>>
                  /\ response'.status # 200 => (~valid \/ ~body.json) ]_vars


\* C18: a call of process_command for a sender who is authenticated when it
\* starts leaves user_sessions and users as they are, whatever the text; and
\* a step that adds a session adds one, at the end, for an identity that was
\* not authenticated before the step.
C18_LoginOnlyWithoutSession ==
    [][ /\ \A fb \in Senders, raw \in Messages :
            (is_user_authenticated(fb) /\ Calls(fb, raw))
            => /\ user_sessions' = user_sessions
               /\ users' = users
        /\ user_sessions' # user_sessions
            => /\ Len(user_sessions') = Len(user_sessions) + 1
               /\ SubSeq(user_sessions', 1, Len(user_sessions)) = user_sessions
               /\ ~is_user_authenticated(
                        user_sessions'[Len(user_sessions')].facebook_id) ]_vars

\* a sender with a session has sent [bob], the name of an account whose
\* password is bob: it was taken as a selection, and bob is not bound to the
\* sender
C18_Witness ==
    /\ reply.call = "process_command"
    /\ reply.args = <<"[", "bob", "]">>
    /\ reply.text = SetItemReply(<<"bob">>)
    /\ is_user_authenticated(reply.to)
    /\ <<"bob">> \in DOMAIN users
    /\ users[<<"bob">>].facebook_id = "bob_fb_id"
    /\ Len(user_sessions) = 1


\* C19: a login that succeeds for sender X with the username u sets the
\* facebook_id of the row u to X, whoever held the row before, keeps its
\* password hash and leaves every other row as it is; no step adds or removes
\* a username, and no two rows ever hold the same facebook_id.
C19_LoginBindsUser ==
    [][ /\ \A fb \in Senders, raw \in Messages :
            (Calls(fb, raw) /\ reply'.text = AuthSuccessReply)
            => LET u == content_of(strip(raw))
               IN /\ u \in DOMAIN users
                  /\ users'[u].facebook_id = fb
                  /\ users'[u].password_hash = users[u].password_hash
                  /\ \A other \in DOMAIN users \ {u} : users'[other] = users[other]
        /\ DOMAIN users' = DOMAIN users
        /\ \A u1, u2 \in DOMAIN users' :
              u1 # u2 => users'[u1].facebook_id # users'[u2].facebook_id ]_vars

\* admin was bound to fb1 by a login, and a login of fb2 has bound it to fb2;
\* bob was never touched
C19_Witness ==
    /\ Len(user_sessions) = 2
    /\ user_sessions[1].facebook_id = "fb1"
    /\ user_sessions[2].facebook_id = "fb2"
    /\ reply.text = AuthSuccessReply
    /\ <<"bob">> \in DOMAIN users
    /\ users[<<"bob">>].facebook_id = "bob_fb_id"
    /\ users[<<"admin">>].facebook_id = "fb2"


\* C20: every step leaves the records that command_logs holds as they are and
\* where they are, and a call of process_command that logs puts one record,
\* of the sender of the call, after all of them: the records of a sender are
\* in the order in which its commands were processed.
C20_LogAppendOnly ==
    [][ /\ Len(command_logs') >= Len(command_logs)
        /\ SubSeq(command_logs', 1, Len(command_logs)) = command_logs
        /\ \A fb \in Senders, raw \in Messages :
            (Calls(fb, raw) /\ command_logs' # command_logs)
            => /\ Len(command_logs') = Len(command_logs) + 1
               /\ command_logs'[Len(command_logs')].facebook_id = fb ]_vars

\* the log holds the login of a sender and, after it, the add of the same
\* sender, which has just been processed
C20_Witness ==
    /\ Len(command_logs) = 2
    /\ command_logs[1].command = "login"
    /\ command_logs[2].command = "add"
    /\ command_logs[1].facebook_id = command_logs[2].facebook_id
    /\ reply.call = "process_command"
    /\ reply.args = AddText
    /\ reply.to = command_logs[2].facebook_id


\* C21: for an authenticated sender, a keyword of the dispatch (statistics,
\* add, subtract, count) in upper case or capitalised does what the keyword
\* in lower case does in the same state and environment: the same items
\* table, the same audit record, with the keyword in lower case as its
\* command name, the same reply, report and upload.
C21_CaseInsensitiveDispatch ==
    [][ \A fb \in Senders, k \in DOMAIN CaseForms, env \in Environments :
          \A tok \in CaseForms[k] :
            ( /\ reply'.call = "process_command"
              /\ reply'.to = fb
              /\ reply'.args = <<"[", tok, "]">>
              /\ is_user_authenticated(fb)
              /\ ProcessCommandWithin(MaxItemLogs, fb, <<"[", tok, "]">>,
                                      env.gen, env.post) )
            => LET r == process_command(fb, <<"[", k, "]">>, env.gen, env.post)
               IN /\ ~reply'.raised
                  /\ items' = r.items
                  /\ command_logs' = r.command_logs
                  /\ Len(command_logs') = Len(command_logs) + 1
                  /\ command_logs'[Len(command_logs')].command = k
                  /\ reply'.text = r.reply
                  /\ reply'.report = r.report
                  /\ reply'.upload = r.upload ]_vars

\* an authenticated sender has sent [Add] after an add: it was logged as
\* add and took default_item from 1 to 2
C21_Witness ==
    /\ reply.call = "process_command"
    /\ reply.args = <<"[", "Add", "]">>
    /\ reply.prior = <<1>>
    /\ is_user_authenticated(reply.to)
    /\ LastLog.command = "add"
    /\ LastLog.facebook_id = reply.to
    /\ SaysNewCount(reply.text, 2)
    /\ items["default_item"].count = 2

====
